---- MODULE Spec2Model ----
(***************************************************************************)
(* Model of opticFlowLK (src/lucas_kanade.c): the pyramidal Lucas-Kanade   *)
(* tracker.  The level loop, the point loop with its in-place compaction   *)
(* of the vectors array, the determinant test and the refinement loop are  *)
(* translated statement by statement.  The image primitives the function   *)
(* calls (image_subpixel_window, image_gradients, image_calculate_g,       *)
(* image_difference, image_multiply) are not part of the file; their       *)
(* results (G, error, the two products) are inputs drawn from small sets.  *)
(***************************************************************************)
EXTENDS Integers, Sequences, FiniteSets, TLC

\* ---------------------------------------------------------------- bounds
MaxInput == 2      \* at most this many input points
MaxIter  == 3      \* max_iterations ranges over 0..MaxIter
MaxLevel == 1      \* pyramid_level ranges over 0..MaxLevel
ImgW     == 16     \* width of the two frames
ImgH     == 16     \* height of the two frames

\* values of the remaining scalar parameters
HalfWindowSizes == {2}
SubpixelFactors == {1, 10}
StepThresholds  == {0, 2}

\* input points (finest-resolution pixel coordinates): inside the image,
\* on each border, and on the edge of what the checks accept
PointSet ==
  { <<1, 4>>, <<4, ImgH - 1>>, <<2, 2>>, <<4, 4>>, <<ImgW - 2, ImgH - 2>> }

\* ------------------------------------------------------- C integer arithmetic
\* C's integer division truncates toward zero
CDiv(a, b) ==
  IF (a >= 0) = (b > 0) THEN (IF a >= 0 THEN a ELSE -a) \div (IF b > 0 THEN b ELSE -b)
  ELSE -((IF a >= 0 THEN a ELSE -a) \div (IF b > 0 THEN b ELSE -b))

Abs(a) == IF a < 0 THEN -a ELSE a

\* conversion to uint16_t (struct point_t's x and y) and to int16_t
\* (struct flow_t's flow_x and flow_y)
ToU16(n) == n % 65536
ToI16(n) == LET u == n % 65536 IN IF u >= 32768 THEN u - 65536 ELSE u

\* uint8_t exp = 2^pyramid_level
RECURSIVE Exp(_)
Exp(k) == IF k = 0 THEN 1 ELSE (2 * Exp(k - 1)) % 256

\* ------------------------------------------- 64-bit arithmetic of line 163
\* A 64-bit magnitude is held as six base-4096 digits, least significant
\* first, so that every intermediate value stays below 2^31; a signed 64-bit
\* value is [neg, mag].
BigOf(n) ==
  << n % 4096, (n \div 4096) % 4096, (n \div 16777216) % 4096, 0, 0, 0 >>

BigZero == << 0, 0, 0, 0, 0, 0 >>

RECURSIVE NormFrom(_, _, _)
NormFrom(c, k, carry) ==
  IF k > 6 THEN << >>
  ELSE LET t == c[k] + carry
       IN  << t % 4096 >> \o NormFrom(c, k + 1, t \div 4096)

BigAdd(a, b) == NormFrom([k \in 1..6 |-> a[k] + b[k]], 1, 0)

\* a - b for a >= b
BigSub(a, b) == NormFrom([k \in 1..6 |-> a[k] - b[k]], 1, 0)

RECURSIVE BigLessFrom(_, _, _)
BigLessFrom(a, b, k) ==
  IF k = 0 THEN FALSE
  ELSE IF a[k] # b[k] THEN a[k] < b[k]
  ELSE BigLessFrom(a, b, k - 1)

BigLess(a, b) == BigLessFrom(a, b, 6)

\* product of two magnitudes below 2^31 (three digits each)
BigMul(a, b) ==
  LET Col(k) ==
        (IF k \in 1..3 THEN a[1] * b[k] ELSE 0)
        + (IF k - 1 \in 1..3 THEN a[2] * b[k - 1] ELSE 0)
        + (IF k - 2 \in 1..3 THEN a[3] * b[k - 2] ELSE 0)
  IN  NormFrom([k \in 1..6 |-> Col(k)], 1, 0)

\* quotient of a magnitude by a divisor 0 < d < 2^19
RECURSIVE BigDivFrom(_, _, _, _)
BigDivFrom(a, k, rem, d) ==
  IF k = 0 THEN << >>
  ELSE LET t == rem * 4096 + a[k]
       IN  BigDivFrom(a, k - 1, t % d, d) \o << t \div d >>

BigDiv(a, d) == BigDivFrom(a, 6, 0, d)

Signed(n) == [neg |-> n < 0, mag |-> BigOf(Abs(n))]

SignedMul(x, y) ==
  LET m == BigMul(BigOf(Abs(x)), BigOf(Abs(y)))
  IN  [neg |-> (m # BigZero) /\ ((x < 0) # (y < 0)), mag |-> m]

SignedSub(x, y) ==
  IF x.neg # y.neg THEN [neg |-> x.neg, mag |-> BigAdd(x.mag, y.mag)]
  ELSE IF BigLess(x.mag, y.mag) THEN [neg |-> ~x.neg, mag |-> BigSub(y.mag, x.mag)]
  ELSE LET m == BigSub(x.mag, y.mag)
       IN  [neg |-> (m # BigZero) /\ x.neg, mag |-> m]

\* signed division by the unsigned subpixel_factor, truncating toward zero
SignedDiv(x, d) ==
  LET m == BigDiv(x.mag, d)
  IN  [neg |-> (m # BigZero) /\ x.neg, mag |-> m]

\* conversion of a 64-bit value to int32_t: its low 32 bits, two's complement
ToI32(x) ==
  LET low31 == x.mag[1] + x.mag[2] * 4096 + (x.mag[3] % 128) * 16777216
      bit31 == (x.mag[3] \div 128) % 2
  IN  IF ~x.neg
      THEN (IF bit31 = 1 THEN (low31 - 1073741824) - 1073741824 ELSE low31)
      ELSE (IF bit31 = 0 THEN -low31
            ELSE IF low31 = 0 THEN (-1073741824) - 1073741824
            ELSE (1073741824 - low31) + 1073741824)

\* (int64_t) G[0] * G[3] - G[1] * G[2], then / subpixel_factor, before the
\* result is stored in the int32_t Det.  G is <<G[0], G[1], G[2], G[3]>>;
\* G[1] * G[2] is an int product and the values of G are kept such that it
\* does not overflow.
DetWide(G, subpixel_factor) ==
  SignedDiv(SignedSub(SignedMul(G[1], G[4]), Signed(G[2] * G[3])), subpixel_factor)

\* int32_t Det = ((int64_t) G[0] * G[3] - G[1] * G[2]) / subpixel_factor;
DetOf(G, subpixel_factor) == ToI32(DetWide(G, subpixel_factor))

\* if (Det < 1) ... continue;
DetTooSmall(Det) == Det < 1

\* ------------------------------------------------ the statements of the loops
\* for (...; i < max_points && i < points_orig; ...)
LoopCond(i, max_points, points_orig) == i < max_points /\ i < points_orig

\* the count is carried over instead of being reset
ResetCountKept(cnt) == cnt

\* *points_cnt = 0;  at the start of every level
ResetCount(cnt) == 0

\* uint16_t patch_size = 2 * half_window_size + 1;
PatchSize(half_window_size) == 2 * half_window_size + 1

\* uint32_t error_threshold = (25 * 25) * (patch_size * patch_size);
ErrorThreshold(half_window_size) ==
  (25 * 25) * (PatchSize(half_window_size) * PatchSize(half_window_size))

\* width and height of pyramid level k: each level has half the linear
\* resolution of the level below it
RECURSIVE LevelW(_)
LevelW(k) == IF k = 0 THEN ImgW ELSE LevelW(k - 1) \div 2
RECURSIVE LevelH(_)
LevelH(k) == IF k = 0 THEN ImgH ELSE LevelH(k - 1) \div 2

\* the input ROI test without its test of the left border
OutsideROINoLeft(pt, w, h, half_window_size) ==
  \/ (w - pt[1]) < half_window_size
  \/ pt[2] < half_window_size
  \/ (h - pt[2]) < half_window_size

\* the input ROI test of the coarsest level: the operands are uint16_t and
\* are promoted to int, so the subtractions are signed
OutsideROI(pt, w, h, half_window_size) ==
  \/ pt[1] < half_window_size
  \/ (w - pt[1]) < half_window_size
  \/ pt[2] < half_window_size
  \/ (h - pt[2]) < half_window_size

\* the initial vector with a flow that is not cleared
NewVectorStaleFlow(pt, subpixel_factor, exp) ==
  [ pos_x  |-> ToU16(CDiv(pt[1] * subpixel_factor, exp)),
    pos_y  |-> ToU16(CDiv(pt[2] * subpixel_factor, exp)),
    flow_x |-> 1,
    flow_y |-> 0 ]

\* the vector a point starts the coarsest level with; the product is taken
\* in uint32_t and the quotient is stored in a uint16_t
NewVector(pt, subpixel_factor, exp) ==
  [ pos_x  |-> ToU16(CDiv(pt[1] * subpixel_factor, exp)),
    pos_y  |-> ToU16(CDiv(pt[2] * subpixel_factor, exp)),
    flow_x |-> 0,
    flow_y |-> 0 ]

\* the vector a finer level starts with
DoubleVector(v) ==
  [ pos_x  |-> ToU16(2 * v.pos_x),
    pos_y  |-> ToU16(2 * v.pos_y),
    flow_x |-> ToI16(2 * v.flow_x),
    flow_y |-> ToI16(2 * v.flow_y) ]

\* struct point_t new_point = { pos.x + flow_x, pos.y + flow_y };
NewPoint(v) == << ToU16(v.pos_x + v.flow_x), ToU16(v.pos_y + v.flow_y) >>

\* a < b where a is the uint32_t difference w - q of a uint16_t w and a
\* quotient q: a negative difference wraps to a value above every uint16_t
U32DiffLess(w, q, b) == (w - q >= 0) /\ (w - q < b)

\* the ROI test of a refinement iteration; x / subpixel_factor is unsigned
CandOutsideROI(np, w, h, half_window_size, subpixel_factor) ==
  \/ (np[1] \div subpixel_factor) < half_window_size
  \/ U32DiffLess(w, np[1] \div subpixel_factor, half_window_size)
  \/ (np[2] \div subpixel_factor) < half_window_size
  \/ U32DiffLess(h, np[2] \div subpixel_factor, half_window_size)

\* the residual test with >= in place of >
ResidualRejectAtHalf(error, it, max_iterations, threshold) ==
  error > threshold /\ it >= max_iterations \div 2

\* if (error > error_threshold && it > max_iterations / 2)
ResidualReject(error, it, max_iterations, threshold) ==
  error > threshold /\ it > max_iterations \div 2

\* int32_t b_x = image_multiply(...) / 255;
MismatchOf(product) == CDiv(product, 255)

\* int32_t step_x = (G[3] * b_x - G[1] * b_y) / Det;
StepX(G, b_x, b_y, Det) == CDiv(G[4] * b_x - G[2] * b_y, Det)

\* int32_t step_y = (G[0] * b_y - G[2] * b_x) / Det;
StepY(G, b_x, b_y, Det) == CDiv(G[1] * b_y - G[3] * b_x, Det)

\* flow_x += step_x; flow_y += step_y;  (int16_t fields)
AddStep(v, step_x, step_y) ==
  [v EXCEPT !.flow_x = ToI16(v.flow_x + step_x),
            !.flow_y = ToI16(v.flow_y + step_y)]

\* if ((abs(step_x) + abs(step_y)) < step_threshold) break;
StepBelowThreshold(step_x, step_y, step_threshold) ==
  (Abs(step_x) + Abs(step_y)) < step_threshold

\* the loop condition with <= in place of <
IterCondInclusive(it, max_iterations) == it <= max_iterations

\* for (...; it < max_iterations; ...)
IterCond(it, max_iterations) == it < max_iterations

\* ------------------------------------------- results of the image primitives
\* G of image_calculate_g: a uniform window, a textured window and a
\* strongly textured window
GSet ==
  { <<0, 0, 0, 0>>, <<4, 1, 1, 4>>, <<262144, 0, 0, 262144>> }

\* error of image_difference and the two products of image_multiply: no
\* difference, an error equal to the threshold, an error above it
DiffSet(threshold) ==
  { [error |-> 0, mx |-> 0, my |-> 0],
    [error |-> threshold, mx |-> 255 * 8, my |-> 0],
    [error |-> threshold + 1, mx |-> 255 * 8, my |-> 0] }

\* two identical frames sampled at the same position differ nowhere
ZeroDiff == [error |-> 0, mx |-> 0, my |-> 0]

\* the buffers of the call
WindowBufs ==
  { <<"window_I", 0>>, <<"window_J", 0>>, <<"window_DX", 0>>,
    <<"window_DY", 0>>, <<"window_diff", 0>> }

\* the level images pyramid_build creates in pyramid_old and pyramid_new
LevelBufs(pyramid_level) ==
  { <<"pyramid_old_level", k>> : k \in 0..pyramid_level }
    \cup { <<"pyramid_new_level", k>> : k \in 0..pyramid_level }

\* the three malloc calls of lines 73-77
ArrayBufs == { <<"vectors", 0>>, <<"pyramid_old", 0>>, <<"pyramid_new", 0>> }

\* what lines 225-234 release
Freed(pyramid_level) == WindowBufs \cup LevelBufs(pyramid_level)

\* ----------------------------------------------------------------- state
VARIABLES
  \* the arguments of the call
  points, max_points, half_window_size, subpixel_factor, max_iterations,
  step_threshold, pyramid_level,
  identical,      \* whether new_img and old_img hold the same picture
  \* the locals of opticFlowLK
  pc, LVL, i, new_p, points_cnt, points_orig, vectors, it, G, Det, tracked,
  live,           \* the allocations not yet released
  \* history kept for the properties
  owner,          \* owner[j]: index of the input point whose state slot j holds
  fate,           \* fate[p]: "unseen", "live", or the first rejection of point p
  why,            \* outcome of the pass over the current slot
  dbl,            \* dbl[j]: how often slot j was doubled at the current level
  prevEnd,        \* vectors as the previous level left it
  sampled,        \* whole-pixel positions sampled for the current point
  nsampled,       \* candidate windows sampled for the current point
  converged,      \* the refinement loop left through the step test
  err             \* <<error, it>> of the last residual test, or <<>>

args == << points, max_points, half_window_size, subpixel_factor,
           max_iterations, step_threshold, pyramid_level, identical >>
locals == << pc, LVL, i, new_p, points_cnt, points_orig, vectors, it, G, Det,
             tracked, live >>
history == << owner, fate, why, dbl, prevEnd, sampled, nsampled, converged, err >>
vars == << args, locals, history >>

Slots == 0..(max_points - 1)

ZeroVector == [pos_x |-> 0, pos_y |-> 0, flow_x |-> 0, flow_y |-> 0]

\* whole-pixel position of a subpixel coordinate
PixelOf(x, y) == << x \div subpixel_factor, y \div subpixel_factor >>

Init ==
  /\ \E n \in 0..MaxInput :
       /\ points \in [0..(n - 1) -> PointSet]
       /\ points_cnt = n
       /\ fate = [p \in 0..(n - 1) |-> "unseen"]
  /\ max_points \in 0..MaxInput
  /\ half_window_size \in HalfWindowSizes
  /\ subpixel_factor \in SubpixelFactors
  /\ max_iterations \in 0..MaxIter
  /\ step_threshold \in StepThresholds
  /\ pyramid_level \in 0..MaxLevel
  /\ identical \in BOOLEAN
  /\ pc = "start"
  /\ LVL = 0 /\ i = 0 /\ new_p = 0 /\ points_orig = 0 /\ it = 0
  /\ vectors = << >> /\ G = <<0, 0, 0, 0>> /\ Det = 0 /\ tracked = FALSE
  /\ live = {}
  /\ owner = << >> /\ why = "none" /\ dbl = << >> /\ prevEnd = << >>
  /\ sampled = {} /\ nsampled = 0 /\ converged = FALSE /\ err = << >>

\* lines 73-109: the allocations, the pyramids, the windows, exp
Allocate ==
  /\ pc = "start"
  /\ live' = ArrayBufs \cup LevelBufs(pyramid_level) \cup WindowBufs
  /\ vectors' = [j \in Slots |-> ZeroVector]
  /\ owner' = [j \in Slots |-> -1]
  /\ dbl' = [j \in Slots |-> 0]
  /\ prevEnd' = [j \in Slots |-> ZeroVector]
  /\ LVL' = pyramid_level
  /\ pc' = "level"
  /\ UNCHANGED << args, i, new_p, points_cnt, points_orig, it, G, Det, tracked,
                  fate, why, sampled, nsampled, converged, err >>

\* lines 111-121: the head of the level loop and the start of a level
LevelBegin ==
  /\ pc = "level"
  /\ LVL # -1
  /\ points_orig' = points_cnt
  /\ points_cnt' = ResetCount(points_cnt)
  /\ new_p' = 0
  /\ i' = 0
  /\ dbl' = [j \in Slots |-> 0]
  /\ pc' = "point"
  /\ UNCHANGED << args, LVL, vectors, it, G, Det, tracked, live,
                  owner, fate, why, prevEnd, sampled, nsampled, converged, err >>

\* lines 123-171: the head of the point loop, the input ROI test or the
\* doubling, the reference window, G and the determinant test
PointBegin ==
  /\ pc = "point"
  /\ LoopCond(i, max_points, points_orig)
  /\ IF LVL = pyramid_level
        /\ OutsideROI(points[i], LevelW(LVL), LevelH(LVL), half_window_size)
     THEN /\ why' = "ROI"
          /\ fate' = [fate EXCEPT ![i] = "ROI"]
          /\ pc' = "continue"
          /\ UNCHANGED << vectors, G, Det, tracked, it, owner, dbl,
                          sampled, nsampled, converged, err >>
     ELSE \E g \in GSet :
            LET v == IF LVL = pyramid_level
                     THEN NewVector(points[i], subpixel_factor, Exp(pyramid_level))
                     ELSE DoubleVector(vectors[new_p])
                id == IF LVL = pyramid_level THEN i ELSE owner[new_p]
                d == DetOf(g, subpixel_factor)
            IN  /\ vectors' = [vectors EXCEPT ![new_p] = v]
                /\ owner' = [owner EXCEPT ![new_p] = id]
                /\ dbl' = IF LVL = pyramid_level THEN dbl
                          ELSE [dbl EXCEPT ![new_p] = @ + 1]
                /\ sampled' = { PixelOf(v.pos_x, v.pos_y) }
                /\ nsampled' = 0
                /\ converged' = FALSE
                /\ err' = << >>
                /\ G' = g
                /\ Det' = d
                /\ IF DetTooSmall(d)
                   THEN /\ why' = "Det"
                        /\ fate' = [fate EXCEPT ![id] =
                                      IF @ \in {"unseen", "live"} THEN "Det" ELSE @]
                        /\ pc' = "continue"
                        /\ UNCHANGED << tracked, it >>
                   ELSE /\ tracked' = TRUE
                        /\ it' = 0
                        /\ why' = "none"
                        /\ fate' = [fate EXCEPT ![id] =
                                      IF @ = "unseen" THEN "live" ELSE @]
                        /\ pc' = "iter"
  /\ UNCHANGED << args, LVL, i, new_p, points_cnt, points_orig, live, prevEnd >>

\* lines 175-212: one pass through the body of the refinement loop
Iterate ==
  /\ pc = "iter"
  /\ IterCond(it, max_iterations)
  /\ LET v == vectors[new_p]
         new_point == NewPoint(v)
     IN  IF CandOutsideROI(new_point, LevelW(LVL), LevelH(LVL),
                           half_window_size, subpixel_factor)
         THEN /\ tracked' = FALSE
              /\ why' = "CandROI"
              /\ pc' = "pointend"
              /\ UNCHANGED << vectors, it, sampled, nsampled, converged, err >>
         ELSE \E diff \in (IF identical /\ new_point = << v.pos_x, v.pos_y >>
                           THEN { ZeroDiff }
                           ELSE DiffSet(ErrorThreshold(half_window_size))) :
                /\ sampled' = sampled \cup { PixelOf(new_point[1], new_point[2]) }
                /\ nsampled' = nsampled + 1
                /\ err' = << diff.error, it >>
                /\ IF ResidualReject(diff.error, it, max_iterations,
                                     ErrorThreshold(half_window_size))
                   THEN /\ tracked' = FALSE
                        /\ why' = "Residual"
                        /\ pc' = "pointend"
                        /\ UNCHANGED << vectors, it, converged >>
                   ELSE LET b_x == MismatchOf(diff.mx)
                            b_y == MismatchOf(diff.my)
                            step_x == StepX(G, b_x, b_y, Det)
                            step_y == StepY(G, b_x, b_y, Det)
                        IN  /\ vectors' = [vectors EXCEPT
                                             ![new_p] = AddStep(v, step_x, step_y)]
                            /\ IF StepBelowThreshold(step_x, step_y, step_threshold)
                               THEN /\ converged' = TRUE
                                    /\ pc' = "pointend"
                                    /\ UNCHANGED it
                               ELSE /\ it' = it + 1
                                    /\ UNCHANGED << converged, pc >>
                            /\ UNCHANGED << tracked, why >>
  /\ UNCHANGED << args, LVL, i, new_p, points_cnt, points_orig, G, Det, live,
                  owner, fate, dbl, prevEnd >>

\* line 175: the loop condition fails, the iterations are used up
IterationsUsedUp ==
  /\ pc = "iter"
  /\ ~IterCond(it, max_iterations)
  /\ pc' = "pointend"
  /\ UNCHANGED << args, LVL, i, new_p, points_cnt, points_orig, vectors, it, G,
                  Det, tracked, live, history >>

\* the body of the point loop ends: G, Det, tracked and it go out of scope
EndOfBody ==
  /\ G' = <<0, 0, 0, 0>> /\ Det' = 0 /\ tracked' = FALSE /\ it' = 0
  /\ why' = "none" /\ sampled' = {} /\ nsampled' = 0
  /\ converged' = FALSE /\ err' = << >>

\* lines 215-220: count the point if it was tracked, then the next i
PointEnd ==
  /\ pc = "pointend"
  /\ IF tracked
     THEN /\ new_p' = new_p + 1
          /\ points_cnt' = points_cnt + 1
          /\ UNCHANGED fate
     ELSE /\ fate' = [fate EXCEPT ![owner[new_p]] = IF @ = "live" THEN why ELSE @]
          /\ UNCHANGED << new_p, points_cnt >>
  /\ i' = i + 1
  /\ pc' = "point"
  /\ EndOfBody
  /\ UNCHANGED << args, LVL, points_orig, vectors, live, owner, dbl, prevEnd >>

\* lines 135 and 170: continue, the next i
Continue ==
  /\ pc = "continue"
  /\ i' = i + 1
  /\ pc' = "point"
  /\ EndOfBody
  /\ UNCHANGED << args, LVL, new_p, points_cnt, points_orig, vectors, live,
                  owner, fate, dbl, prevEnd >>

\* lines 123 and 111: the point loop ends, the next finer level
LevelEnd ==
  /\ pc = "point"
  /\ ~LoopCond(i, max_points, points_orig)
  /\ LVL' = LVL - 1
  /\ prevEnd' = vectors
  /\ pc' = "level"
  /\ UNCHANGED << args, i, new_p, points_cnt, points_orig, vectors, it, G, Det,
                  tracked, live, owner, fate, why, dbl, sampled, nsampled,
                  converged, err >>

\* lines 224-237: the level loop ends, the buffers are freed, return
FreeAndReturn ==
  /\ pc = "level"
  /\ LVL = -1
  /\ live' = live \ Freed(pyramid_level)
  /\ pc' = "done"
  /\ UNCHANGED << args, LVL, i, new_p, points_cnt, points_orig, vectors, it, G,
                  Det, tracked, history >>

Next ==
  \/ Allocate
  \/ LevelBegin
  \/ PointBegin
  \/ Iterate
  \/ IterationsUsedUp
  \/ PointEnd
  \/ Continue
  \/ LevelEnd
  \/ FreeAndReturn

Spec == Init /\ [][Next]_vars

\* ------------------------------------------------------------ properties
InputCount == Cardinality(DOMAIN points)

Survivors == 0..(points_cnt - 1)

\* a level has been completed: between two levels, or after the return
LevelDone == pc \in {"level", "done"} /\ LVL < pyramid_level

\* C1: a point rejected at some level is dropped for the rest of the call: the
\* state of a rejected point is not taken up again by a later pass of the
\* point loop, and it is not among the first *points_cnt returned vectors.
C1_RejectedDropped ==
  /\ pc = "iter" => fate[owner[new_p]] = "live"
  /\ pc = "done" => \A j \in Survivors : fate[owner[j]] = "live"

\* C2: warm start: at a level below the coarsest a pass starts from exactly
\* twice the position and flow the slot ended the coarser level with, each
\* slot being doubled exactly once, and every point tracked at the coarser
\* level gets such a pass.
C2_WarmStart ==
  /\ (pc = "iter" /\ nsampled = 0 /\ LVL < pyramid_level)
       => /\ dbl[new_p] = 1
          /\ vectors[new_p].pos_x = 2 * prevEnd[new_p].pos_x
          /\ vectors[new_p].pos_y = 2 * prevEnd[new_p].pos_y
          /\ vectors[new_p].flow_x = 2 * prevEnd[new_p].flow_x
          /\ vectors[new_p].flow_y = 2 * prevEnd[new_p].flow_y
  /\ (pc \in {"level", "done"} /\ LVL < pyramid_level - 1)
       => \A j \in 0..(points_orig - 1) : dbl[j] = 1

\* C3: during and after every level *points_cnt is at most the count carried
\* in from the coarser level, at most max_points and at most the input count.
C3_CountBound ==
  (pc \in {"point", "iter", "pointend", "continue"} \/ LevelDone)
    => /\ points_cnt <= points_orig
       /\ points_cnt <= max_points
       /\ points_cnt <= InputCount
       /\ points_orig <= InputCount

C3_Witness ==
  /\ pc = "done"
  /\ pyramid_level >= 1
  /\ InputCount > max_points
  /\ points_cnt = max_points
  /\ points_cnt >= 1

\* an input point within half_window_size of an edge of the frame
NearBorder(pt) ==
  \/ pt[1] < half_window_size
  \/ pt[2] < half_window_size
  \/ ImgW - pt[1] < half_window_size
  \/ ImgH - pt[2] < half_window_size

C5_IdentityZeroFlow ==
  (identical /\ LevelDone)
    => \A j \in Survivors : vectors[j].flow_x = 0 /\ vectors[j].flow_y = 0

C5_Witness ==
  /\ identical
  /\ pc = "done"
  /\ pyramid_level >= 1
  /\ max_iterations >= 2
  /\ step_threshold = 0
  /\ points_cnt >= 1

\* C6: at most max_iterations candidate windows are sampled for a point at a
\* level, and the refinement loop is left in exactly one of three ways:
\* rejected (tracked is false), converged (the step test), or with the
\* iterations used up (it has reached max_iterations).
C6_IterationBound ==
  /\ nsampled <= max_iterations
  /\ pc = "pointend"
       => /\ (~tracked) <=> (why \in {"CandROI", "Residual"})
          /\ (~tracked) => ~converged
          /\ converged => it < max_iterations
          /\ (tracked /\ ~converged)
               => (it = max_iterations /\ nsampled = max_iterations)

C6_Witness ==
  /\ pc = "pointend"
  /\ tracked
  /\ ~converged
  /\ max_iterations = MaxIter
  /\ nsampled = max_iterations

\* C7: at the return every buffer of the call but the returned vectors array
\* has been released.
C7_AllReleased == pc = "done" => live = { <<"vectors", 0>> }

\* the scaled determinant as an exact integer is at least 1
ExactDetAtLeast1(g, factor) ==
  LET d == DetWide(g, factor) IN (~d.neg) /\ d.mag # BigZero

\* C8: a point goes on to refinement only if the exact scaled determinant is
\* at least 1, and is rejected by the determinant test only if it is below 1.
C8_ExactDeterminant ==
  /\ pc = "iter" => ExactDetAtLeast1(G, subpixel_factor)
  /\ (pc = "continue" /\ why = "Det") => ~ExactDetAtLeast1(G, subpixel_factor)

\* C9 as stated: an iteration rejects for residual exactly when the error
\* exceeds 625 * patch_size^2 and the number of completed iterations is at
\* least max_iterations / 2.
C9_RejectAtHalf ==
  err # << >>
    => ((why = "Residual")
          <=> (err[1] > 625 * (2 * half_window_size + 1) * (2 * half_window_size + 1)
               /\ err[2] >= max_iterations \div 2))

\* C9 as amended: an iteration rejects for residual exactly when the error
\* exceeds 625 * patch_size^2 and more than half of max_iterations are
\* completed (2 * it > max_iterations); no point is rejected for residual
\* when max_iterations is below 3.
C9_RejectPastHalf ==
  err # << >>
    => /\ (why = "Residual")
            <=> (err[1] > 625 * (2 * half_window_size + 1) * (2 * half_window_size + 1)
                 /\ 2 * err[2] > max_iterations)
       /\ (why = "Residual") => max_iterations >= 3

C9_Witness ==
  /\ pc = "pointend"
  /\ why = "Residual"
  /\ max_iterations = 3
  /\ err[2] = 2

\* C10: every position sampled for a point that survives a level lies, in
\* whole pixels of the level, in [half_window_size, width - half_window_size)
\* by [half_window_size, height - half_window_size).
C10_SampledInROI ==
  (pc = "pointend" /\ tracked)
    => \A q \in sampled :
         /\ half_window_size <= q[1]
         /\ q[1] < LevelW(LVL) - half_window_size
         /\ half_window_size <= q[2]
         /\ q[2] < LevelH(LVL) - half_window_size

====
